---- MODULE Spec2Model ----
(***************************************************************************)
(* A model of cenotium's LLMCompiler core: the streaming plan parser       *)
(* (compiler/output_parser.py) and the task fetching unit                  *)
(* (compiler/task_fetching.py).                                            *)
(*                                                                         *)
(* Strings are sequences of lexical tokens.  A token stands for one unit   *)
(* of the plan grammar: "Thought: ", a digit, ". ", a tool name, "(", ")", *)
(* "query=", a quote, a literal character, a placeholder "$k", "\n".       *)
(***************************************************************************)
EXTENDS Integers, Sequences, FiniteSets, TLC

\* ------------------------------------------------------------------ bounds

\* Longest plan (number of tasks) of arbitrary ids pulled in one pass.
MaxTasks == 2
\* In a plan of arbitrary ids, task ids and placeholder ids are in 1..MaxId.
MaxId == 2
\* Longest plan whose tasks are numbered 1, 2, ... in order.
MaxPlan == 3
\* The thread pool holds 1..MaxWorkers workers.
MaxWorkers == 2
\* Longest history the pass is seeded from.
MaxHistory == 1

\* ------------------------------------------------------- strings of tokens

None == <<"None">>

\* The placeholder token that refers to task k.
Placeholder(k) ==
    CASE k = 1 -> "$1" [] k = 2 -> "$2" [] k = 3 -> "$3" [] k = 4 -> "$4"
      [] OTHER -> "$5"

\* ID_PATTERN: the id a token refers to, 0 when the token is no placeholder.
ID_PATTERN(tok) ==
    CASE tok = "$1" -> 1 [] tok = "$2" -> 2 [] tok = "$3" -> 3
      [] tok = "$4" -> 4 [] tok = "$5" -> 5 [] OTHER -> 0

RECURSIVE Flatten(_)
Flatten(ss) == IF ss = <<>> THEN <<>> ELSE Head(ss) \o Flatten(Tail(ss))

RECURSIVE SetToSortedSeq(_)
\* sorted(S) for a finite set of integers.
SetToSortedSeq(S) ==
    IF S = {} THEN <<>>
    ELSE LET m == CHOOSE x \in S : \A y \in S : x <= y
         IN  <<m>> \o SetToSortedSeq(S \ {m})

Range(s) == {s[i] : i \in DOMAIN s}

\* Index of the first occurrence of tok in s, 0 when absent.
IndexOf(s, tok) ==
    IF tok \in Range(s)
    THEN CHOOSE i \in DOMAIN s : s[i] = tok /\ \A j \in 1..(i - 1) : s[j] # tok
    ELSE 0

\* ------------------------------------------------- output_parser.py: tasks

\* The registry handed to the parser: search returns "result:" followed by
\* its query, boom raises on every invocation, lookup is a search that
\* declares a second parameter.
ToolNames == <<"search", "boom", "lookup">>

\* tool.args.keys(): the declared parameter names of a registered tool, in
\* the order of their declaration.
ToolArgKeys(tool) == IF tool = "lookup" THEN <<"query", "other">> ELSE <<"query">>

\* f"{key}=" as a token.
KeyToken(key) == CASE key = "query" -> "query=" [] OTHER -> "other="

RECURSIVE RStrip(_, _)
\* s.rstrip(chars), for the tokens in toks.
RStrip(s, toks) ==
    IF s # <<>> /\ s[Len(s)] \in toks THEN RStrip(SubSeq(s, 1, Len(s) - 1), toks)
    ELSE s

\* A comma, alone or followed by a blank; strip() takes the blank away before
\* rstrip(",") and literal_eval skips it.
Commas == {",", ", "}

\* A colon, alone or followed by a blank.
Colons == {":", ": "}

\* The values an argument can hold after _ast_parse: a str (its tokens), an
\* int, a list of values, a dict (its items in insertion order), a tuple.
StrV(s) == [kind |-> "str", s |-> s]
IntV(n) == [kind |-> "int", n |-> n]
ListV(items) == [kind |-> "list", items |-> items]
DictV(items) == [kind |-> "dict", items |-> items]
TupleV(items) == [kind |-> "tuple", items |-> items]

\* The value of a digit token, 0 for any other token.
Digit(tok) ==
    CASE tok = "1" -> 1 [] tok = "2" -> 2 [] tok = "3" -> 3 [] tok = "4" -> 4
      [] OTHER -> 0

\* The digit token of n.
DigitToken(n) ==
    CASE n = 1 -> "1" [] n = 2 -> "2" [] n = 3 -> "3" [] OTHER -> "4"

\* A failed parse of a literal.
NoLiteral == [ok |-> FALSE, val |-> IntV(0), next |-> 0]

\* d[key] = val on a dict literal's items: a repeated key keeps its place and
\* takes the later value.
DictItemSet(items, key, val) ==
    IF \E i \in DOMAIN items : items[i].key = key
    THEN [i \in DOMAIN items |->
             IF items[i].key = key THEN [key |-> key, val |-> val] ELSE items[i]]
    ELSE Append(items, [key |-> key, val |-> val])

\* The position of the first quote of s after position p, 0 when none.
closing_quote(s, p) ==
    IF \E q \in (p + 1)..Len(s) : s[q] = "'"
    THEN CHOOSE q \in (p + 1)..Len(s) :
             s[q] = "'" /\ \A d \in (p + 1)..(q - 1) : s[d] # "'"
    ELSE 0

RECURSIVE str_literal_to(_, _, _, _)
\* The string literal whose opening quote is at position p and whose closing
\* quote is at q; string literals that follow one another are one string.
str_literal_to(s, p, q, sofar) ==
    IF q = 0 THEN NoLiteral
    ELSE IF q + 1 <= Len(s) /\ s[q + 1] = "'"
    THEN str_literal_to(s, q + 1, closing_quote(s, q + 1),
                        sofar \o SubSeq(s, p + 1, q - 1))
    ELSE [ok |-> TRUE, val |-> StrV(sofar \o SubSeq(s, p + 1, q - 1)), next |-> q + 1]

RECURSIVE literal_at(_, _)
RECURSIVE list_items_at(_, _, _)
RECURSIVE list_items_after(_, _, _)
RECURSIVE dict_items_at(_, _, _)
RECURSIVE dict_items_after_key(_, _, _)
RECURSIVE dict_items_after_value(_, _, _, _)
\* ast.literal_eval on the literal that starts at position p of s:
\* [ok, val, next], next being the position after the literal.
literal_at(s, p) ==
    IF p > Len(s) THEN NoLiteral
    ELSE IF s[p] = "'" THEN str_literal_to(s, p, closing_quote(s, p), <<>>)
    ELSE IF Digit(s[p]) # 0
    THEN [ok |-> TRUE, val |-> IntV(Digit(s[p])), next |-> p + 1]
    ELSE IF s[p] = "[" THEN list_items_at(s, p + 1, <<>>)
    ELSE IF s[p] = "{" THEN dict_items_at(s, p + 1, <<>>)
    ELSE NoLiteral

\* The elements of a list display from position p on, up to its "]".
list_items_at(s, p, items) ==
    IF p > Len(s) THEN NoLiteral
    ELSE IF s[p] = "]" THEN [ok |-> TRUE, val |-> ListV(items), next |-> p + 1]
    ELSE list_items_after(s, items, literal_at(s, p))

\* The list display after its element e.
list_items_after(s, items, e) ==
    IF ~e.ok \/ e.next > Len(s) THEN NoLiteral
    ELSE IF s[e.next] \in Commas
    THEN list_items_at(s, e.next + 1, Append(items, e.val))
    ELSE IF s[e.next] = "]"
    THEN [ok |-> TRUE, val |-> ListV(Append(items, e.val)), next |-> e.next + 1]
    ELSE NoLiteral

\* The items of a dict display from position p on, up to its "}".
dict_items_at(s, p, items) ==
    IF p > Len(s) THEN NoLiteral
    ELSE IF s[p] = "}" THEN [ok |-> TRUE, val |-> DictV(items), next |-> p + 1]
    ELSE dict_items_after_key(s, items, literal_at(s, p))

\* The dict display after the key k of an item.  A key that is a list or a
\* dict is unhashable: literal_eval raises.
dict_items_after_key(s, items, k) ==
    IF ~k.ok \/ k.next > Len(s) THEN NoLiteral
    ELSE IF s[k.next] \notin Colons \/ k.val.kind \in {"list", "dict"} THEN NoLiteral
    ELSE dict_items_after_value(s, items, k.val, literal_at(s, k.next + 1))

\* The dict display after the value v of the item of key.
dict_items_after_value(s, items, key, v) ==
    IF ~v.ok \/ v.next > Len(s) THEN NoLiteral
    ELSE IF s[v.next] \in Commas
    THEN dict_items_at(s, v.next + 1, DictItemSet(items, key, v.val))
    ELSE IF s[v.next] = "}"
    THEN [ok |-> TRUE, val |-> DictV(DictItemSet(items, key, v.val)), next |-> v.next + 1]
    ELSE NoLiteral

RECURSIVE tuple_items_at(_, _, _)
RECURSIVE tuple_items_after(_, _, _)
\* The literals that follow one another from position p on, separated by
\* commas, up to the end of s: an expression list without parentheses.
tuple_items_at(s, p, items) ==
    IF p > Len(s) THEN [ok |-> TRUE, val |-> TupleV(items), next |-> p]
    ELSE tuple_items_after(s, items, literal_at(s, p))

\* The expression list after its element e.
tuple_items_after(s, items, e) ==
    IF ~e.ok THEN NoLiteral
    ELSE IF e.next > Len(s)
    THEN [ok |-> TRUE, val |-> TupleV(Append(items, e.val)), next |-> e.next]
    ELSE IF s[e.next] \in Commas
    THEN tuple_items_at(s, e.next + 1, Append(items, e.val))
    ELSE NoLiteral

\* What _ast_parse returns for arg, r being literal_eval's parse of its
\* first literal: that literal when it is the whole of arg, a tuple when
\* more literals follow separated by commas, arg itself otherwise.
ast_parse_of(arg, r, t) ==
    IF r.ok /\ r.next = Len(arg) + 1 THEN r.val
    ELSE IF r.ok /\ t.ok THEN t.val
    ELSE StrV(arg)

\* _ast_parse: the value of the literal the whole of arg spells; anything
\* else makes ast.literal_eval raise and is kept as the raw string.
ast_parse(arg) == ast_parse_of(arg, literal_at(arg, 1), tuple_items_at(arg, 1, <<>>))

RECURSIVE py_repr(_)
RECURSIVE py_repr_join(_)
\* repr(value): a str in quotes, the elements of a list and the items of a
\* dict by their repr, separated by ", ".
py_repr(v) ==
    CASE v.kind = "str" -> <<"'">> \o v.s \o <<"'">>
      [] v.kind = "int" -> <<DigitToken(v.n)>>
      [] v.kind = "list" -> <<"[">> \o py_repr_join(v.items) \o <<"]">>
      [] v.kind = "dict" ->
            <<"{">>
            \o py_repr_join([i \in DOMAIN v.items |->
                    [kind |-> "item", key |-> v.items[i].key, val |-> v.items[i].val]])
            \o <<"}">>
      [] v.kind = "item" -> py_repr(v.key) \o <<": ">> \o py_repr(v.val)
      [] v.kind = "tuple" ->
            <<"(">> \o py_repr_join(v.items)
            \o (IF Len(v.items) = 1 THEN <<",", ")">> ELSE <<")">>)

\* ", ".join(repr(v) for v in vs)
py_repr_join(vs) ==
    IF vs = <<>> THEN <<>>
    ELSE IF Len(vs) = 1 THEN py_repr(vs[1])
    ELSE py_repr(vs[1]) \o <<", ">> \o py_repr_join(Tail(vs))

\* str(value): a str is itself, any other value its repr.
py_str(v) == IF v.kind = "str" THEN v.s ELSE py_repr(v)

\* tool_key = None, which is also when prev_idx is None.
NoKey == "None"

\* extracted_args[tool_key] = _ast_parse(piece), when a key has been seen.
extract(extracted, tool_key, piece) ==
    IF tool_key = NoKey THEN extracted
    ELSE Append(extracted, [key |-> tool_key, val |-> ast_parse(piece)])

RECURSIVE parse_args_loop(_, _, _, _)
RECURSIVE parse_args_key(_, _, _, _, _)
\* The loop of _parse_llm_compiler_action_args over tool.args.keys() and the
\* final extraction after it.
parse_args_loop(keys, args, extracted, tool_key) ==
    IF keys = <<>>
    THEN extract(extracted, tool_key, RStrip(RStrip(args, Commas), {")"}))
    ELSE parse_args_key(keys, args, extracted, tool_key,
                        IndexOf(args, KeyToken(Head(keys))))

\* One round of the loop, idx being args.index(f"{key}=") and 0 when
\* f"{key}=" is not in args.
parse_args_key(keys, args, extracted, tool_key, idx) ==
    parse_args_loop(
        Tail(keys),
        IF idx = 0 THEN args ELSE SubSeq(args, idx + 1, Len(args)),
        IF idx = 0 THEN extracted
        ELSE extract(extracted, tool_key, RStrip(SubSeq(args, 1, idx - 1), Commas)),
        IF idx = 0 THEN tool_key ELSE Head(keys))

\* _parse_llm_compiler_action_args(args, tool): an ordered mapping, as a
\* sequence of [key, val].  join is a str, not a BaseTool: no argument.
parse_llm_compiler_action_args(args, tool) ==
    IF args = <<>> THEN <<>>
    ELSE IF tool = "join" THEN <<>>
    ELSE parse_args_loop(ToolArgKeys(tool), args, <<>>, NoKey)

\* extract_deps with re.search in place of re.findall: the first match only.
extract_deps_first(arg_str) ==
    LET hits == {j \in DOMAIN arg_str : ID_PATTERN(arg_str[j]) # 0}
    IN  IF hits = {} THEN {}
        ELSE {ID_PATTERN(arg_str[CHOOSE j \in hits : \A k \in hits : j <= k])}

\* extract_deps: re.findall(ID_PATTERN, str(arg_value)) as a set of ids.
extract_deps(arg_str) ==
    {ID_PATTERN(arg_str[i]) : i \in {j \in DOMAIN arg_str : ID_PATTERN(arg_str[j]) # 0}}

\* _get_dependencies_from_graph without the case of join.
get_dependencies_no_join(idx, tool_name, args) ==
    SetToSortedSeq(UNION {extract_deps(py_str(args[i].val)) : i \in DOMAIN args})

\* _get_dependencies_from_graph
get_dependencies_from_graph(idx, tool_name, args) ==
    IF tool_name = "join" THEN [i \in 1..(idx - 1) |-> i]
    ELSE SetToSortedSeq(UNION {extract_deps(py_str(args[i].val)) : i \in DOMAIN args})

\* instantiate_task finding every tool_name.
tool_found_always(tool_name) == TRUE

\* Whether instantiate_task finds tool_name (join is never looked up).
tool_found(tool_name) == tool_name = "join" \/ tool_name \in Range(ToolNames)

\* Task(idx=..., tool=..., args=tool_args, dependencies=..., thought=...)
Task(idx, tool_name, tool_args, th) ==
    [idx |-> idx,
     tool |-> tool_name,
     args |-> tool_args,
     dependencies |-> get_dependencies_from_graph(idx, tool_name, tool_args),
     thought |-> th]

\* instantiate_task, for a tool_name it finds.
instantiate_task(idx, tool_name, args, th) ==
    Task(idx, tool_name, parse_llm_compiler_action_args(args, tool_name), th)

\* ----------------------------------------------- output_parser.py: lines

\* \w+ : the tokens that are a word.
Words == {"search", "boom", "lookup", "join", "nope", "a", "x"}

\* Index of the last occurrence of tok in s, 0 when absent.
LastIndexOf(s, tok) ==
    IF tok \in Range(s)
    THEN CHOOSE i \in DOMAIN s : s[i] = tok /\ \A j \in (i + 1)..Len(s) : s[j] # tok
    ELSE 0

\* re.match(THOUGHT_PATTERN, line)
thought_match(line) == Len(line) >= 1 /\ line[1] = "Thought: "

\* re.match(ACTION_PATTERN, line): a number, ". ", a word, "(", anything up
\* to the last ")" of the line; what follows that ")" is not looked at.
action_match(line) ==
    /\ Len(line) >= 5
    /\ Digit(line[1]) # 0
    /\ line[2] = ". "
    /\ line[3] \in Words
    /\ line[4] = "("
    /\ LastIndexOf(line, ")") >= 5

\* _parse_task(line, thought): [task, thought, raised], where task is <<>>
\* (None) or <<the task>>, and raised says that instantiate_task raised
\* OutputParserException.
parse_task(line, th) ==
    IF thought_match(line)
    THEN [task |-> <<>>, thought |-> Tail(line), raised |-> FALSE]
    ELSE IF action_match(line)
    THEN IF tool_found(line[3])
         THEN [task |-> <<instantiate_task(
                              Digit(line[1]), line[3],
                              SubSeq(line, 5, LastIndexOf(line, ")") - 1),
                              th)>>,
               thought |-> None,
               raised |-> FALSE]
         ELSE [task |-> <<>>, thought |-> th, raised |-> TRUE]
    ELSE [task |-> <<>>, thought |-> th, raised |-> FALSE]

RECURSIVE Split(_, _)
\* s.split(sep): the pieces of s between the occurrences of sep.
Split(s, sep) ==
    LET i == IndexOf(s, sep)
    IN  IF i = 0 THEN <<s>>
        ELSE <<SubSeq(s, 1, i - 1)>> \o Split(SubSeq(s, i + 1, Len(s)), sep)

RECURSIVE ingest_lines(_, _, _)
RECURSIVE ingest_line(_, _, _)
\* The loop of ingest_token over the complete lines: the tasks it yields,
\* each with the thought yielded beside it, until a line raises.
ingest_lines(lines, th, yields) ==
    IF lines = <<>> THEN [yields |-> yields, raised |-> FALSE]
    ELSE ingest_line(lines, yields, parse_task(Head(lines), th))

\* One round of that loop, r being what _parse_task made of the line.
ingest_line(lines, yields, r) ==
    IF r.raised THEN [yields |-> yields, raised |-> TRUE]
    ELSE ingest_lines(
             Tail(lines), r.thought,
             IF r.task # <<>>
             THEN Append(yields, [task |-> r.task[1], thought |-> r.thought])
             ELSE yields)

\* ingested with the suffix thrown away instead of kept in the buffer.
ingested_suffix_lost(joined, suffix, th, r) ==
    [tasks |-> [n \in DOMAIN r.yields |-> r.yields[n].task],
     thought |-> IF r.yields = <<>> THEN th
                 ELSE r.yields[Len(r.yields)].thought,
     buffer |-> <<>>,
     raised |-> r.raised]

\* What ingest_token leaves behind, r being the outcome of its loop over the
\* complete lines of joined: the tasks, the thought _transform keeps (that of
\* the last pair yielded, or its own when nothing was yielded), the buffer.
ingested(joined, suffix, th, r) ==
    [tasks |-> [n \in DOMAIN r.yields |-> r.yields[n].task],
     thought |-> IF r.yields = <<>> THEN th
                 ELSE r.yields[Len(r.yields)].thought,
     buffer |-> IF r.raised THEN joined ELSE suffix,
     raised |-> r.raised]

\* buffer "".join(buffer).split("\n"), parsed but for its last piece.
ingest_split(joined, buffer_, th) ==
    ingested(joined, buffer_[Len(buffer_)], th,
             ingest_lines(SubSeq(buffer_, 1, Len(buffer_) - 1), th, <<>>))

\* ingest_token(token, buffer, thought) as _transform consumes it: the token
\* is appended to the buffer; if it holds a newline the buffer is split, the
\* complete lines are parsed and the suffix is kept.  _transform takes its
\* thought from the pairs that are yielded, so it keeps the thought of the
\* last pair, or its own when nothing was yielded.  The buffer is held
\* joined: the code only ever reads "".join(buffer).
ingest_token(token, buffer, th) ==
    IF "\n" \in Range(token)
    THEN ingest_split(buffer \o token, Split(buffer \o token, "\n"), th)
    ELSE [tasks |-> <<>>, thought |-> th, buffer |-> buffer \o token, raised |-> FALSE]

\* What the end of _transform yields, r being what _parse_task made of the
\* buffer.
flushed(r) == [tasks |-> r.task, raised |-> r.raised]

\* flush without the parse of what is left in the buffer.
flush_dropped(buffer, th) == [tasks |-> <<>>, raised |-> FALSE]

\* The end of _transform: what is left in the buffer is parsed as a line.
flush(buffer, th) == flushed(parse_task(buffer, th))

\* out followed by the tasks of r, and whether r raised.
yield_all(out, r) == [tasks |-> out \o r.tasks, raised |-> r.raised]

RECURSIVE transform_loop(_, _, _, _)
RECURSIVE transform_chunk(_, _, _)
\* _transform over the chunks that are left: the tasks yielded and whether
\* the parse ended with OutputParserException.
transform_loop(chunks, buffer, th, out) ==
    IF chunks = <<>>
    THEN yield_all(out, flush(buffer, th))
    ELSE transform_chunk(chunks, out, ingest_token(Head(chunks), buffer, th))

\* One round of that loop, r being what ingest_token made of the chunk.
transform_chunk(chunks, out, r) ==
    IF r.raised THEN yield_all(out, r)
    ELSE transform_loop(Tail(chunks), r.buffer, r.thought, out \o r.tasks)

\* parse(text): _transform on the whole text as one chunk.
parse(txt) == transform_loop(<<txt>>, <<>>, None, <<>>)

\* ------------------------------------------- task_fetching.py: the executor

\* The history's messages: function results carry an idx, others do not
\* (idx = 0 stands for no idx).
MessageSet ==
    {[type |-> "function", idx |-> 1, content |-> <<"old">>],
     [type |-> "human", idx |-> 0, content |-> <<"ask">>]}

HistorySet == UNION {[1..n -> MessageSet] : n \in 0..MaxHistory}

\* d[k] = v on a dict held as a function.
DictSet(d, k, v) == [x \in DOMAIN d \cup {k} |-> IF x = k THEN v ELSE d[x]]

RECURSIVE get_observations_loop(_, _)
get_observations_loop(msgs, results) ==
    IF msgs = <<>> THEN results
    ELSE LET message == msgs[Len(msgs)]
             rest == SubSeq(msgs, 1, Len(msgs) - 1)
         IN  IF message.type = "function" /\ message.idx # 0
             THEN get_observations_loop(
                      rest, DictSet(results, message.idx, message.content))
             ELSE get_observations_loop(rest, results)

RECURSIVE Reverse(_)
Reverse(q) == IF q = <<>> THEN <<>> ELSE Append(Reverse(Tail(q)), Head(q))

\* _get_observations walking the history forwards: the latest message with
\* a given idx is the one kept.
get_observations_forwards(msgs) == get_observations_loop(Reverse(msgs), <<>>)

\* _get_observations: walks the history backwards, so the earliest message
\* with a given idx is the one kept.
get_observations(msgs) == get_observations_loop(msgs, <<>>)

\* resolve_str that substitutes nothing.
resolve_str_kept(s, obs) == s

\* re.sub(ID_PATTERN, replace_match, s): every placeholder whose id is a key
\* of the observations is replaced by the observation, any other token is
\* kept.  The pattern ends in an optional "}", so a "}" right after a
\* placeholder belongs to the match and goes with it.
resolve_str(s, obs) ==
    Flatten([i \in DOMAIN s |->
                IF ID_PATTERN(s[i]) \in DOMAIN obs
                THEN obs[ID_PATTERN(s[i])]
                ELSE IF s[i] = "}" /\ i > 1 /\ ID_PATTERN(s[i - 1]) \in DOMAIN obs
                THEN <<>>
                ELSE <<s[i]>>])

RECURSIVE resolve_arg(_, _)
\* _resolve_arg: a str is substituted, a list element by element, any other
\* value (an int, a dict) is returned as it is.
resolve_arg(arg, obs) ==
    CASE arg.kind = "str" -> StrV(resolve_str(arg.s, obs))
      [] arg.kind = "list" ->
            ListV([i \in DOMAIN arg.items |-> resolve_arg(arg.items[i], obs)])
      [] OTHER -> arg

\* resolved_args of _execute_task.
resolved_args(task, obs) ==
    [i \in DOMAIN task.args |->
        [key |-> task.args[i].key,
         val |-> resolve_arg(task.args[i].val, obs)]]

\* tool_to_use.invoke raises: boom always, search without its query.
tool_raises(tool, rargs) ==
    tool = "boom" \/ ~(\E i \in DOMAIN rargs : rargs[i].key = "query")

\* What tool_to_use.invoke returns when it does not raise.
tool_invoke(tool, rargs) ==
    <<"result:">> \o py_str(rargs[CHOOSE i \in DOMAIN rargs : rargs[i].key = "query"].val)

\* execute_error with the prefix left out of the format string.
execute_error_unmarked(tool) == <<"Failed to execute", tool>>

\* The string _execute_task makes of an exception of the tool.
execute_error(tool) == <<"ERROR:", "Failed to execute", tool>>

\* _execute_task returning None for a str tool.
execute_task_join_none(task, rargs) ==
    IF task.tool = "join" THEN None
    ELSE IF tool_raises(task.tool, rargs) THEN execute_error(task.tool)
    ELSE tool_invoke(task.tool, rargs)

\* _execute_task without the test for a str tool: join is invoked like a
\* registered tool, which raises.
execute_task_join_invoked(task, rargs) ==
    IF task.tool = "join" \/ tool_raises(task.tool, rargs) THEN execute_error(task.tool)
    ELSE tool_invoke(task.tool, rargs)

\* _execute_task: a str tool (join) is returned as it is; otherwise the tool
\* is invoked on the resolved arguments and its exception becomes a string.
execute_task(task, rargs) ==
    IF task.tool = "join" THEN <<"join">>
    ELSE IF tool_raises(task.tool, rargs) THEN execute_error(task.tool)
    ELSE tool_invoke(task.tool, rargs)

\* observation_key taken for a 0-based index.
observation_key_off_by_one(task) == task.idx - 1

\* The key schedule_task writes the observation under.
observation_key(task) == task.idx

\* deps_missing that looks at the first dependency only.
deps_missing_first(task, obs) ==
    task.dependencies # <<>> /\ task.dependencies[1] \notin DOMAIN obs

\* deps_missing without the test of the table: any dependency defers.
deps_missing_untested(task, obs) == task.dependencies # <<>>

\* deps_missing with the membership test inverted.
deps_missing_inverted(task, obs) ==
    task.dependencies # <<>>
    /\ \E i \in DOMAIN task.dependencies :
          task.dependencies[i] \in DOMAIN obs

\* dep not in observations, for some dep of the task.
deps_missing(task, obs) ==
    task.dependencies # <<>>
    /\ \E i \in DOMAIN task.dependencies :
          task.dependencies[i] \notin DOMAIN obs

\* ------------------------------------------ task_fetching.py: the scheduler

VARIABLES
    text,           \* the plan text the planner streams
    fed,            \* how much of text has reached _transform, in tokens
    texts,          \* _transform's buffer, joined
    thought,        \* _transform's thought
    yielded,        \* the tasks _transform has yielded
    ppc,            \* where _transform is: "feeding", "done", "raised"
    messages,       \* scheduler_input["messages"]: the history
    observations,   \* schedule_tasks' observations: id -> string
    originals,      \* set(observations) taken before the loop
    task_names,     \* id -> tool name
    tasks,          \* the tasks pulled so far, in order, each with its progress
    pc,             \* where schedule_tasks (the calling thread) is
    max_workers,    \* the size of the ThreadPoolExecutor
    tool_messages,  \* the list schedule_tasks returns
    subscribers,    \* MessageBroker.subscribers: topic -> set of callbacks
    rate_limits,    \* MessageBroker.rate_limits: sender -> count
    message_history, \* MessageBroker.message_history: topic -> the calls kept
    calls,          \* the calls of publish, each with its progress
    delivered       \* what the callbacks were called with, in order

\* The parser's variables, the scheduler's and the broker's.
pvars == <<text, fed, texts, thought, yielded, ppc>>
svars == <<messages, observations, originals, task_names, tasks, pc, max_workers, tool_messages>>
bvars == <<subscribers, rate_limits, message_history, calls, delivered>>
vars == <<pvars, svars, bvars>>

\* The topics: the values of MessageType that are used.
Topics == {"agent_result", "system_alert"}

\* The agents that send.
Senders == {"agent"}

\* MessageBroker.__init__: nothing subscribed, sent or kept.
BrokerIdle ==
    /\ subscribers = [t \in Topics |-> {}]
    /\ rate_limits = [a \in Senders |-> 0]
    /\ message_history = [t \in Topics |-> <<>>]
    /\ calls = <<>>
    /\ delivered = <<>>

\* The argument strings of the plans the scheduler is run on: a literal
\* query, or a query that is a placeholder for task k, k in 1..n.
ArgStrings(n) ==
    {<<"query=", "'", "a", "'">>}
    \cup {<<"query=", "'", Placeholder(k), "'">> : k \in 1..n}

\* The tasks the parser can yield with an id in idxs and placeholders in 1..n.
Tasks(idxs, n) ==
    {instantiate_task(idx, "search", args, None) : idx \in idxs, args \in ArgStrings(n)}
    \cup {instantiate_task(idx, name, <<"query=", "'", "a", "'">>, None) :
              idx \in idxs, name \in {"boom", "join"}}

\* Plans of arbitrary ids: any task may carry any id.  One query refers to
\* two tasks at once.
TaskSet ==
    Tasks(1..MaxId, MaxId)
    \cup {instantiate_task(idx, "search", <<"query=", "'", "$1", "$2", "'">>, None) :
              idx \in 1..MaxId}

\* The tasks of plans numbered in order.
NumberedTasks == Tasks(1..MaxPlan, MaxPlan)

\* Plans numbered in order: the p-th task has id p.
NumberedTaskSet(p) == {task \in NumberedTasks : task.idx = p}

\* A task as the pass tracks it.  mode: run by the calling thread ("inline")
\* or submitted to the executor ("deferred").  st: "queued" in the
\* executor's work queue; "check" at the top of schedule_pending_task's loop;
\* "sleep" in time.sleep; "ready" about to enter _execute_task; "executing"
\* inside the tool; "completed" once the observation is written.  rargs: the
\* arguments the tool was invoked with.  wrote: the writes the task made.
Entry(task, mode, st) ==
    [task |-> task, mode |-> mode, st |-> st, rargs |-> <<>>, wrote |-> <<>>]

Deferred == {i \in DOMAIN tasks : tasks[i].mode = "deferred"}

\* The futures a worker thread is running.
Running == {i \in Deferred : tasks[i].st \in {"check", "sleep", "ready", "executing"}}

\* No plan is being parsed.
ParserIdle ==
    /\ text = <<>>
    /\ fed = 0
    /\ texts = <<>>
    /\ thought = None
    /\ yielded = <<>>
    /\ ppc = "idle"

Init ==
    /\ BrokerIdle
    /\ ParserIdle
    /\ messages \in HistorySet
    /\ observations = get_observations(messages)
    /\ originals = DOMAIN observations
    /\ task_names = <<>>
    /\ tasks = <<>>
    /\ pc = "pull"
    /\ max_workers \in 1..MaxWorkers
    /\ tool_messages = <<>>

\* Dispatch that records no name for a task it submits to the executor.
Dispatch_unnamed(task) ==
    /\ pc = "pull"
    /\ IF deps_missing(task, observations)
       THEN /\ tasks' = Append(tasks, Entry(task, "deferred", "queued"))
            /\ task_names' = task_names
            /\ pc' = "pull"
       ELSE /\ tasks' = Append(tasks, Entry(task, "inline", "ready"))
            /\ task_names' = DictSet(task_names, task.idx, task.tool)
            /\ pc' = "inline"
    /\ UNCHANGED <<bvars, messages, observations, originals, max_workers, tool_messages>>

\* Dispatch that both submits the task and hands it to schedule_task.
Dispatch_both(task) ==
    /\ pc = "pull"
    /\ task_names' = DictSet(task_names, task.idx, task.tool)
    /\ tasks' = tasks \o <<Entry(task, "deferred", "queued"), Entry(task, "inline", "ready")>>
    /\ pc' = "inline"
    /\ UNCHANGED <<bvars, messages, observations, originals, max_workers, tool_messages>>

\* One iteration of `for task in tasks_iter` up to the dispatch: the name is
\* recorded, then the task is submitted or handed to schedule_task.
Dispatch(task) ==
    /\ pc = "pull"
    /\ task_names' = DictSet(task_names, task.idx, task.tool)
    /\ IF deps_missing(task, observations)
       THEN /\ tasks' = Append(tasks, Entry(task, "deferred", "queued"))
            /\ pc' = "pull"
       ELSE /\ tasks' = Append(tasks, Entry(task, "inline", "ready"))
            /\ pc' = "inline"
    /\ UNCHANGED <<bvars, messages, observations, originals, max_workers, tool_messages>>

\* The iteration on a task handed over by a stream that is not modelled.
Pull(task) == Dispatch(task) /\ UNCHANGED pvars

\* tasks_iter is exhausted: the calling thread goes on to wait(futures).
EndOfStream ==
    /\ pc = "pull"
    /\ pc' = "wait"
    /\ UNCHANGED <<bvars, pvars, messages, observations, originals, task_names, tasks, max_workers, tool_messages>>

\* A worker thread of the pool takes the oldest queued work item.
WorkerTake(i) ==
    /\ i \in Deferred
    /\ tasks[i].st = "queued"
    /\ \A j \in Deferred : j < i => tasks[j].st # "queued"
    /\ Cardinality(Running) < max_workers
    /\ tasks' = [tasks EXCEPT ![i].st = "check"]
    /\ UNCHANGED <<bvars, pvars, messages, observations, originals, task_names, pc, max_workers, tool_messages>>

\* schedule_pending_task: the test at the top of the loop.
PollCheck(i) ==
    /\ i \in Deferred
    /\ tasks[i].st = "check"
    /\ tasks' = [tasks EXCEPT ![i].st =
                    IF deps_missing(tasks[i].task, observations)
                    THEN "sleep" ELSE "ready"]
    /\ UNCHANGED <<bvars, pvars, messages, observations, originals, task_names, pc, max_workers, tool_messages>>

\* schedule_pending_task: time.sleep(retry_after) is over.
PollWake(i) ==
    /\ i \in Deferred
    /\ tasks[i].st = "sleep"
    /\ tasks' = [tasks EXCEPT ![i].st = "check"]
    /\ UNCHANGED <<bvars, pvars, messages, observations, originals, task_names, pc, max_workers, tool_messages>>

\* schedule_task enters _execute_task: the arguments are resolved against
\* the observations of this moment and the tool is invoked.
StartExec(i) ==
    /\ i \in DOMAIN tasks
    /\ tasks[i].st = "ready"
    /\ tasks' = [tasks EXCEPT ![i].st = "executing",
                              ![i].rargs = resolved_args(tasks[i].task, observations)]
    /\ UNCHANGED <<bvars, pvars, messages, observations, originals, task_names, pc, max_workers, tool_messages>>

\* _execute_task returns and schedule_task writes the observation.
FinishExec(i) ==
    /\ i \in DOMAIN tasks
    /\ tasks[i].st = "executing"
    /\ LET key == observation_key(tasks[i].task)
           observation == execute_task(tasks[i].task, tasks[i].rargs)
       IN  /\ observations' = DictSet(observations, key, observation)
           /\ tasks' = [tasks EXCEPT
                 ![i].st = "completed",
                 ![i].wrote = Append(@, [key |-> key, val |-> observation])]
    /\ pc' = IF tasks[i].mode = "inline" THEN "pull" ELSE pc
    /\ UNCHANGED <<bvars, pvars, messages, originals, task_names, max_workers, tool_messages>>

\* The records schedule_tasks builds from the ids in idxs.
build_messages(idxs) ==
    [n \in DOMAIN idxs |->
        [idx |-> idxs[n],
         name |-> task_names[idxs[n]],
         content |-> observations[idxs[n]]]]

\* new_keys sorted the wrong way round.
new_keys_descending == Reverse(SetToSortedSeq(DOMAIN observations \ originals))

\* The ids schedule_tasks reports: sorted(observations.keys() - originals).
new_keys == SetToSortedSeq(DOMAIN observations \ originals)

\* futures_done with the wait left out: the calling thread goes straight on.
futures_done_unwaited == TRUE

\* wait(futures) has returned: every submitted future is done.
futures_done == \A i \in Deferred : tasks[i].st = "completed"

\* wait(futures) returns, the executor shuts down, the records are built and
\* schedule_tasks returns them.
Return ==
    /\ pc = "wait"
    /\ futures_done
    /\ tool_messages' = build_messages(new_keys)
    /\ pc' = "returned"
    /\ UNCHANGED <<bvars, pvars, messages, observations, originals, task_names, tasks, max_workers>>

\* The parser yields the next task of a plan of arbitrary ids.
PullAny == Len(tasks) < MaxTasks /\ \E task \in TaskSet : Pull(task)

\* The parser yields the next task of a plan numbered in order.
PullNumbered ==
    Len(tasks) < MaxPlan /\ \E task \in NumberedTaskSet(Len(tasks) + 1) : Pull(task)

\* What the threads do once tasks are dispatched.
Work ==
    \/ \E i \in DOMAIN tasks : WorkerTake(i)
    \/ \E i \in DOMAIN tasks : PollCheck(i)
    \/ \E i \in DOMAIN tasks : PollWake(i)
    \/ \E i \in DOMAIN tasks : StartExec(i)
    \/ \E i \in DOMAIN tasks : FinishExec(i)
    \/ Return

\* What the pass does besides pulling tasks.
Schedule == EndOfStream \/ Work

Next == PullAny \/ Schedule

\* schedule_tasks on plans of arbitrary ids.
Spec == Init /\ [][Next]_vars

\* What the calling thread can do on a numbered plan.
Main ==
    \/ PullNumbered
    \/ EndOfStream
    \/ \E i \in DOMAIN tasks : tasks[i].mode = "inline" /\ (StartExec(i) \/ FinishExec(i))
    \/ Return

\* What the worker thread running (or about to run) future i can do.
Worker(i) ==
    /\ i \in Deferred
    /\ (WorkerTake(i) \/ PollCheck(i) \/ PollWake(i) \/ StartExec(i) \/ FinishExec(i))

NextNumbered == PullNumbered \/ Schedule

\* schedule_tasks on numbered plans, every thread scheduled fairly: the
\* calling thread and each worker thread keep running while they can.
SpecFair ==
    /\ Init
    /\ [][NextNumbered]_vars
    /\ WF_vars(Main)
    /\ \A i \in 1..MaxPlan : WF_vars(Worker(i))

\* schedule_tasks on numbered plans, with no assumption on how the threads
\* are scheduled.
SpecNumbered == Init /\ [][NextNumbered]_vars

\* ------------------------------------- one task over all argument values

\* Deepest nesting of the argument values a task is given.
MaxDepth == 2
\* Longest argument text that is drawn token by token.
MaxRaw == 3

\* The contents of string literals.
StrLits == {<<"a">>, <<"$1">>, <<"$2">>, <<"$1", "a">>, <<"$1", "$2">>}

RECURSIVE ArgValues(_)
\* The argument values nested d deep at most: strings and an int, lists of
\* them, dicts with a str key, and so on.
ArgValues(d) ==
    IF d = 0 THEN {StrV(lit) : lit \in StrLits} \cup {IntV(1)}
    ELSE LET below == ArgValues(d - 1)
             flat == ArgValues(0)
         IN  below
             \cup {ListV(<<>>)}
             \cup {ListV(<<v>>) : v \in below}
             \cup {ListV(<<v, w>>) : v \in flat, w \in flat}
             \cup {DictV(<<[key |-> StrV(k), val |-> v]>>) :
                       k \in {<<"a">>, <<"$2">>}, v \in below}

\* The tokens argument texts are drawn from.
RawTokens == {"'", "[", "]", "{", "}", ",", ":", "$1", "a"}

\* The texts between the parentheses of an action line: the query spelt as a
\* literal, as two literals separated by a comma, or as up to MaxRaw tokens
\* of any kind; and no argument at all.
ArgTexts ==
    {<<>>}
    \cup {<<"query=">> \o py_repr(v) : v \in ArgValues(MaxDepth)}
    \cup {<<"query=">> \o py_repr_join(<<v, w>>) : v \in ArgValues(0), w \in ArgValues(0)}
    \cup {<<"query=">> \o raw : raw \in UNION {[1..n -> RawTokens] : n \in 0..MaxRaw}}

\* The tasks the parser yields from an action line of search with these
\* arguments.
ValueTasks == {instantiate_task(idx, "search", args, None) : idx \in 1..MaxId, args \in ArgTexts}

\* The histories a single task is run on: nothing, or results for ids 1, 2.
ValueHistories ==
    {<<>>,
     <<[type |-> "function", idx |-> 1, content |-> <<"old">>]>>,
     <<[type |-> "function", idx |-> 1, content |-> <<"old">>],
       [type |-> "function", idx |-> 2, content |-> <<"older">>]>>}

InitValues ==
    /\ BrokerIdle
    /\ ParserIdle
    /\ messages \in ValueHistories
    /\ observations = get_observations(messages)
    /\ originals = DOMAIN observations
    /\ task_names = <<>>
    /\ tasks = <<>>
    /\ pc = "pull"
    /\ max_workers = MaxWorkers
    /\ tool_messages = <<>>

\* The parser yields the only task of the plan.
PullValue == tasks = <<>> /\ \E task \in ValueTasks : Pull(task)

NextValues == PullValue \/ Schedule

\* schedule_tasks on a plan of one task, over all argument values.
SpecValues == InitValues /\ [][NextValues]_vars

\* ------------------------------------------------ the seed of a pass

\* Longest history the seed is built from.
MaxSeedHistory == 3

\* Messages of a history: function results with an idx, two of them for the
\* same idx, a function result without idx, a message of another kind that
\* carries an idx.
SeedMessages ==
    {[type |-> "function", idx |-> 1, content |-> <<"old">>],
     [type |-> "function", idx |-> 1, content |-> <<"older">>],
     [type |-> "function", idx |-> 2, content |-> <<"old">>],
     [type |-> "function", idx |-> 0, content |-> <<"old">>],
     [type |-> "human", idx |-> 1, content |-> <<"ask">>]}

SeedHistories == UNION {[1..n -> SeedMessages] : n \in 0..MaxSeedHistory}

\* schedule_tasks has been called and has not read the history yet.
InitSeed ==
    /\ BrokerIdle
    /\ ParserIdle
    /\ messages \in SeedHistories
    /\ observations = <<>>
    /\ originals = {}
    /\ task_names = <<>>
    /\ tasks = <<>>
    /\ pc = "start"
    /\ max_workers = MaxWorkers
    /\ tool_messages = <<>>

\* observations = _get_observations(messages); originals = set(observations)
Seed ==
    /\ pc = "start"
    /\ observations' = get_observations(messages)
    /\ originals' = DOMAIN observations'
    /\ pc' = "pull"
    /\ UNCHANGED <<bvars, pvars, messages, task_names, tasks, max_workers, tool_messages>>

\* The parser yields the only task of the plan, with id 1.
PullSeeded == tasks = <<>> /\ \E task \in NumberedTaskSet(1) : Pull(task)

NextSeed == Seed \/ PullSeeded \/ Schedule

\* schedule_tasks from its first line, on a plan of one task.
SpecSeed == InitSeed /\ [][NextSeed]_vars

\* ------------------------------------------------ the scheduler's claims

Deps(t) == Range(t.dependencies)

Completed(i) == tasks[i].st = "completed"

\* The ids of the tasks pulled so far.
PlanIds == {tasks[i].task.idx : i \in DOMAIN tasks}

\* C1: a task that is about to enter or has entered _execute_task, inline or
\* in a deferred worker, has every id of its dependency set among the keys of
\* the observation table.
C1_DepsPresentAtExecution ==
    \A i \in DOMAIN tasks :
        tasks[i].st \in {"ready", "executing"}
            => Deps(tasks[i].task) \subseteq DOMAIN observations

\* A deferred task with dependencies has entered _execute_task.
C1_Witness ==
    \E i \in Deferred :
        tasks[i].st = "executing" /\ Cardinality(Deps(tasks[i].task)) >= 2

\* C3: a task whose id is in the seed is not executed during the pass (its
\* tool is not invoked) and the seeded value is still in the table when the
\* pass ends.
C3_SeededTaskNotReExecuted ==
    /\ \A i \in DOMAIN tasks :
          tasks[i].task.idx \in originals
              => tasks[i].st \notin {"executing", "completed"}
    /\ pc = "returned"
          => \A k \in originals : observations[k] = get_observations(messages)[k]

\* C4: a value of the observation table is never replaced and no key is ever
\* removed: every step keeps every entry as it is.
C4_NeverOverwritten ==
    [][\A k \in DOMAIN observations :
          k \in DOMAIN observations' /\ observations'[k] = observations[k]]_vars

\* C5: the returned list holds a record for exactly the ids that are keys of
\* the table at the end and were not in the seed, none for a seeded id, in
\* strictly ascending order of id (hence one record per id).
C5_ReturnedRecords ==
    pc = "returned" =>
        /\ {tool_messages[n].idx : n \in DOMAIN tool_messages}
              = DOMAIN observations \ originals
        /\ \A n \in DOMAIN tool_messages : tool_messages[n].idx \notin originals
        /\ \A m, n \in DOMAIN tool_messages :
              m < n => tool_messages[m].idx < tool_messages[n].idx

\* The pass returned two records whose tasks were pulled, and completed, in
\* descending order of id.
C5_Witness ==
    /\ pc = "returned"
    /\ Len(tool_messages) >= 2
    /\ \E i, j \in DOMAIN tasks : i < j /\ tasks[i].task.idx > tasks[j].task.idx

\* C6: the observation a task writes when its tool raised starts with
\* "ERROR:"; the pass still returns, and then every task has completed, each
\* task of another tool with that tool's own result.
C6_FailureIsolated ==
    /\ \A i \in DOMAIN tasks :
          Completed(i) /\ tasks[i].task.tool = "boom"
              => tasks[i].wrote[1].val[1] = "ERROR:"
    /\ pc = "returned" =>
          \A i \in DOMAIN tasks :
              /\ Completed(i)
              /\ tasks[i].task.tool = "search"
                    => tasks[i].wrote[1].val[1] = "result:"
              /\ tasks[i].task.tool = "join"
                    => tasks[i].wrote[1].val = <<"join">>

\* The pass returned from a plan with a failed task and an independent
\* sibling that produced its result.
C6_Witness ==
    /\ pc = "returned"
    /\ \E i, j \in DOMAIN tasks :
          /\ tasks[i].task.tool = "boom"
          /\ tasks[j].task.tool = "search"
          /\ tasks[i].task.idx # tasks[j].task.idx
          /\ tasks[i].task.idx \notin Deps(tasks[j].task)

\* The ids of the plan are pairwise distinct and none is seeded.
DistinctUnseeded ==
    /\ \A i, j \in DOMAIN tasks : i # j => tasks[i].task.idx # tasks[j].task.idx
    /\ \A i \in DOMAIN tasks : tasks[i].task.idx \notin originals

\* C10: a task writes at most once, exactly once when it has completed, and
\* only under its own id; so when the pass has returned from a plan of
\* pairwise distinct unseeded ids, the table has one new entry per task,
\* holding what that task wrote.
C10_OneWritePerTask ==
    /\ \A i \in DOMAIN tasks :
          /\ Len(tasks[i].wrote) = (IF Completed(i) THEN 1 ELSE 0)
          /\ \A w \in DOMAIN tasks[i].wrote :
                tasks[i].wrote[w].key = tasks[i].task.idx
    /\ pc = "returned" /\ DistinctUnseeded =>
          /\ Cardinality(DOMAIN observations \ originals) = Len(tasks)
          /\ \A i \in DOMAIN tasks :
                observations[tasks[i].task.idx] = tasks[i].wrote[1].val

\* The pass returned from a plan of two or more independent tasks of distinct
\* unseeded ids.
C10_Witness ==
    /\ pc = "returned"
    /\ Len(tasks) >= 2
    /\ DistinctUnseeded
    /\ \A i \in DOMAIN tasks : tasks[i].task.dependencies = <<>>

\* C25: a join task is given no arguments, what it writes on completion is
\* the string "join" under its own id, and when the pass has returned the
\* record of a join whose id is not in the seed and is no other task's id
\* is (id, "join", "join").
C25_JoinReturnsItsName ==
    \A i \in DOMAIN tasks :
        tasks[i].task.tool = "join" =>
            /\ tasks[i].rargs = <<>>
            /\ Completed(i) =>
                  tasks[i].wrote = <<[key |-> tasks[i].task.idx, val |-> <<"join">>]>>
            /\ (/\ pc = "returned"
                /\ tasks[i].task.idx \notin originals
                /\ \A j \in DOMAIN tasks : j # i => tasks[j].task.idx # tasks[i].task.idx)
                  => \E n \in DOMAIN tool_messages :
                        tool_messages[n] = [idx |-> tasks[i].task.idx,
                                            name |-> "join",
                                            content |-> <<"join">>]

\* The pass returned the record of a join that waited in a worker for a
\* task pulled after it.
C25_Witness ==
    /\ pc = "returned"
    /\ \E i \in DOMAIN tasks :
          /\ tasks[i].task.tool = "join"
          /\ tasks[i].mode = "deferred"
          /\ \E n \in DOMAIN tool_messages :
                tool_messages[n].idx = tasks[i].task.idx /\ tool_messages[n].name = "join"

\* C28: at every moment of a pass, in every interleaving, each key of the
\* table that is not in the seed is the id of a task that was pulled and has
\* its tool name recorded; so each record built at the end carries the name
\* recorded under its id, the tool of a task with that id.
C28_NewKeysAreNamed ==
    /\ DOMAIN observations \ originals \subseteq DOMAIN task_names
    /\ DOMAIN task_names = PlanIds
    /\ pc = "returned" =>
          \A n \in DOMAIN tool_messages :
              /\ tool_messages[n].name = task_names[tool_messages[n].idx]
              /\ \E i \in DOMAIN tasks :
                    /\ tasks[i].task.idx = tool_messages[n].idx
                    /\ tasks[i].task.tool = tool_messages[n].name

\* The pass returned two records, one of them of a task that a worker ran.
C28_Witness ==
    /\ pc = "returned"
    /\ Len(tool_messages) = 2
    /\ \E i \in DOMAIN tasks : tasks[i].mode = "deferred" /\ Completed(i)

\* The positions of the function results of the history that carry idx k.
ResultsFor(k) ==
    {i \in DOMAIN messages : messages[i].type = "function" /\ messages[i].idx = k}

\* The ids carried by the function results of the history.
ResultIds ==
    {messages[i].idx :
        i \in {j \in DOMAIN messages : messages[j].type = "function" /\ messages[j].idx # 0}}

\* C29: the seed schedule_tasks starts from holds exactly the ids carried by
\* the function results of the history, messages of another kind or without
\* idx adding nothing, each with the content of the earliest function result
\* that carries it; originals is that set of ids from then on.
C29_SeedIsEarliestResult ==
    /\ [][pc = "start" =>
              /\ DOMAIN observations' = ResultIds
              /\ \A k \in ResultIds :
                    observations'[k] =
                        messages[CHOOSE i \in ResultsFor(k) :
                                     \A j \in ResultsFor(k) : i <= j].content]_vars
    /\ [](pc # "start" => originals = ResultIds)

\* The seed was built from a history in which a later result for id 1 has
\* another content than the first, after a message of another kind.
C29_Witness ==
    /\ pc = "pull"
    /\ tasks = <<>>
    /\ Len(messages) = 3
    /\ messages[1].type = "human"
    /\ messages[2].type = "function" /\ messages[2].idx = 1
    /\ messages[3].type = "function" /\ messages[3].idx = 1
    /\ messages[2].content # messages[3].content
    /\ observations[1] = messages[2].content

\* C11: two tasks with empty dependency sets can be inside their tool
\* invocations at the same time: while one of them is executing, the parser's
\* next task with an empty dependency set can be pulled and dispatched.
C11_IndependentTasksRunInParallel ==
    \A i \in DOMAIN tasks :
        (/\ tasks[i].st = "executing"
         /\ tasks[i].task.dependencies = <<>>
         /\ Len(tasks) < MaxTasks)
            => ENABLED (\E task \in TaskSet :
                           task.dependencies = <<>> /\ Pull(task))

\* C12: when schedule_tasks has built its records, every task it dispatched,
\* inline or deferred, has completed and written its observation: none is
\* queued, waiting on its dependencies or executing.
C12_AllCompletedAtReturn ==
    pc = "returned" =>
        \A i \in DOMAIN tasks :
            /\ tasks[i].st = "completed"
            /\ Len(tasks[i].wrote) = 1
            /\ tasks[i].task.idx \in DOMAIN observations

\* The pass returned from a plan with an inline task and a deferred task
\* that had to wait for it.
C12_Witness ==
    /\ pc = "returned"
    /\ \E i, j \in DOMAIN tasks :
          /\ tasks[i].mode = "deferred"
          /\ tasks[j].mode = "inline"
          /\ i < j
          /\ tasks[j].task.idx \in Deps(tasks[i].task)

RECURSIVE Evaluate(_)
\* The table a plan of pairwise distinct ids leads to from the table obs, as a
\* function of the plan alone: round after round, every task whose
\* dependencies are in the table is evaluated on the table of that round.
Evaluate(obs) ==
    LET ready == {i \in DOMAIN tasks :
                     /\ tasks[i].task.idx \notin DOMAIN obs
                     /\ Deps(tasks[i].task) \subseteq DOMAIN obs}
        ByIdx(k) == tasks[CHOOSE i \in ready : tasks[i].task.idx = k].task
    IN  IF ready = {} THEN obs
        ELSE Evaluate([k \in DOMAIN obs \cup {tasks[i].task.idx : i \in ready} |->
                          IF k \in DOMAIN obs THEN obs[k]
                          ELSE execute_task(ByIdx(k), resolved_args(ByIdx(k), obs))])

\* The records of the plan pulled so far, as a function of the plan and the
\* history alone.
ExpectedRecords ==
    LET final == Evaluate(get_observations(messages))
        idxs == SetToSortedSeq(DOMAIN final \ originals)
    IN  [n \in DOMAIN idxs |->
            [idx |-> idxs[n],
             name |-> tasks[CHOOSE i \in DOMAIN tasks : tasks[i].task.idx = idxs[n]].task.tool,
             content |-> final[idxs[n]]]]

\* C13: for a plan of pairwise distinct unseeded ids the returned list (ids,
\* tool names and contents, in order) is a function of the plan and the
\* history: it is the same whatever the order in which the calling thread
\* and the workers ran and completed the tasks.
C13_ResultIndependentOfInterleaving ==
    pc = "returned" /\ DistinctUnseeded => tool_messages = ExpectedRecords

\* The pass returned from a plan of distinct unseeded ids that had two tasks
\* in workers, one of them waiting for the other.
C13_Witness ==
    /\ pc = "returned"
    /\ DistinctUnseeded
    /\ \E i, j \in Deferred :
          i # j /\ tasks[j].task.idx \in Deps(tasks[i].task)

RECURSIVE PlaceholderIds(_)
\* The ids k of the placeholders that occur in a value: in a str, in an
\* element of a list or a tuple at any depth, in a key or a value of a dict.
PlaceholderIds(v) ==
    CASE v.kind = "str" -> {ID_PATTERN(v.s[i]) : i \in DOMAIN v.s} \ {0}
      [] v.kind \in {"list", "tuple"} ->
            UNION {PlaceholderIds(v.items[i]) : i \in DOMAIN v.items}
      [] v.kind = "dict" ->
            UNION {PlaceholderIds(v.items[i].key) \cup PlaceholderIds(v.items[i].val) :
                      i \in DOMAIN v.items}
      [] OTHER -> {}

\* The ids of the placeholders in the parsed argument values of a task.
ArgPlaceholderIds(task) ==
    UNION {PlaceholderIds(task.args[a].val) : a \in DOMAIN task.args}

\* C14: the dependency list of a task that is not join holds exactly the ids
\* k of the placeholders in its parsed argument values, lists included at
\* any depth, each once, in ascending order.
C14_DependenciesArePlaceholders ==
    \A i \in DOMAIN tasks :
        tasks[i].task.tool # "join" =>
            /\ Range(tasks[i].task.dependencies) = ArgPlaceholderIds(tasks[i].task)
            /\ \A m, n \in DOMAIN tasks[i].task.dependencies :
                  m < n => tasks[i].task.dependencies[m] < tasks[i].task.dependencies[n]

\* A task was yielded whose query is a list that holds a list, with two
\* different placeholders in it.
C14_Witness ==
    \E i \in DOMAIN tasks :
        \E a \in DOMAIN tasks[i].task.args :
            LET v == tasks[i].task.args[a].val
            IN  /\ v.kind = "list"
                /\ Len(v.items) = 1
                /\ v.items[1].kind = "list"
                /\ Cardinality(PlaceholderIds(v)) = 2

\* C20: when the tool of a task is invoked, no argument it receives still
\* holds a placeholder of an id of the task's dependency set, be it in a
\* string, in an element of a list at any depth or in a mapping.
C20_NoPlaceholderReachesTool ==
    \A i \in DOMAIN tasks :
        tasks[i].task.tool # "join" /\ tasks[i].st \in {"executing", "completed"} =>
            \A a \in DOMAIN tasks[i].rargs :
                PlaceholderIds(tasks[i].rargs[a].val) \cap Deps(tasks[i].task) = {}

\* ------------------------------------------- termination of a pass

\* The dependency edges id -> dep of the plan pulled so far.
DepEdges ==
    UNION {{<<tasks[i].task.idx, d>> : d \in Deps(tasks[i].task)} : i \in DOMAIN tasks}

RECURSIVE Closure(_, _)
\* The transitive closure of the relation R, reached in at most n rounds.
Closure(R, n) ==
    LET R2 == R \cup {<<p[1][1], p[2][2]>> : p \in {q \in R \X R : q[1][2] = q[2][1]}}
    IN  IF n = 0 \/ R2 = R THEN R ELSE Closure(R2, n - 1)

\* Every dependency id is seeded or the id of a task of the plan, and no id
\* depends on itself through any chain of dependencies.
PlanWellFormed ==
    /\ \A i \in DOMAIN tasks : Deps(tasks[i].task) \subseteq originals \cup PlanIds
    /\ \A e \in Closure(DepEdges, MaxPlan + 1) : e[1] # e[2]

RECURSIVE Resolvable(_)
\* The ids that can still get an observation, given that the ids in R can:
\* the least set that holds R and the id of every task whose dependencies
\* are all in it.
Resolvable(R) ==
    LET more == R \cup {tasks[i].task.idx : i \in {j \in DOMAIN tasks :
                             Deps(tasks[j].task) \subseteq R}}
    IN  IF more = R THEN R ELSE Resolvable(more)

\* The stream has ended and task i has a dependency that no step of the pass
\* can write any more: an id no task produces and that is not seeded, the
\* task's own id, or an id on a dependency cycle.
Unresolvable(i) ==
    /\ pc \in {"wait", "returned"}
    /\ i \in DOMAIN tasks
    /\ ~(Deps(tasks[i].task) \subseteq Resolvable(DOMAIN observations))

\* The progress of the i-th task, "none" before it is pulled.
St(i) == IF i \in DOMAIN tasks THEN tasks[i].st ELSE "none"

Returned == pc = "returned" /\ \A i \in DOMAIN tasks : tasks[i].task.idx \in DOMAIN observations

\* C7: once the stream of a well-formed plan (every dependency seeded or
\* produced by the plan, no cycle) has ended, with at least as many workers
\* as deferred tasks, schedule_tasks eventually returns and every task then
\* has an observation under its id.
C7_WellFormedPlanReturns ==
    (pc = "wait" /\ PlanWellFormed /\ Cardinality(Deferred) <= max_workers)
        ~> Returned

\* A well-formed plan with two deferred tasks, each on its own worker, has
\* returned.
C7_Witness ==
    /\ Returned
    /\ PlanWellFormed
    /\ Cardinality(Deferred) >= 2
    /\ Cardinality(Deferred) <= max_workers

\* C8: the size of the pool does not change whether a pass terminates: a
\* well-formed plan, which returns with one worker per task, returns with a
\* pool of any size >= 1.
C8_AnyPoolSizeReturns == (pc = "wait" /\ PlanWellFormed) ~> Returned

\* C9: schedule_tasks returns only when every dependency id of every task has
\* been written; a deferred task with a dependency that can never be written
\* never gets past the test of its loop, and its worker goes on sleeping and
\* re-checking for ever.
C9_UnresolvedDependencyPollsForever ==
    /\ [](pc = "returned" =>
            \A i \in DOMAIN tasks : Deps(tasks[i].task) \subseteq DOMAIN observations)
    /\ \A i \in 1..MaxPlan :
          /\ [](Unresolvable(i) /\ i \in Running => St(i) \in {"check", "sleep"})
          /\ (Unresolvable(i) /\ St(i) = "check") ~> (St(i) = "sleep")
          /\ (Unresolvable(i) /\ St(i) = "sleep") ~> (St(i) = "check")

\* Two tasks that wait for each other are both asleep in their workers after
\* the stream has ended.
C9_Witness ==
    \E i, j \in DOMAIN tasks :
        /\ i # j
        /\ Unresolvable(i) /\ Unresolvable(j)
        /\ tasks[j].task.idx \in Deps(tasks[i].task)
        /\ tasks[i].task.idx \in Deps(tasks[j].task)
        /\ tasks[i].st = "sleep" /\ tasks[j].st = "sleep"

\* An observation that is the string of a failed task.
IsError(obs) == obs # <<>> /\ obs[1] = "ERROR:"

\* Some task of the plan depends on a task of the plan whose tool raises.
HasFailedDependency ==
    \E i, j \in DOMAIN tasks :
        /\ tasks[j].task.tool = "boom"
        /\ tasks[j].task.idx \in Deps(tasks[i].task)

\* The pass is over and no task was left out: each has completed and each id
\* outside the seed has its record.
AllRecorded ==
    /\ pc = "returned"
    /\ \A i \in DOMAIN tasks :
          /\ Completed(i)
          /\ tasks[i].task.tool = "join" => tasks[i].wrote[1].val = <<"join">>
          /\ tasks[i].task.idx \notin originals =>
                \E n \in DOMAIN tool_messages :
                    tool_messages[n].idx = tasks[i].task.idx

\* C22: a search task whose query is the placeholder of id k, entering
\* _execute_task while the string of a failed task is stored under k, is given
\* that string as its query; and a well-formed plan in which a task depends
\* on a failing task, with a worker for every deferred task, still returns,
\* every task completed (a join with "join") and recorded.
C22_FailureReachesDependents ==
    /\ [][\A i \in DOMAIN tasks : \A k \in Deps(tasks[i].task) :
              (/\ tasks[i].task.tool = "search"
               /\ tasks[i].st = "ready"
               /\ tasks'[i].st = "executing"
               /\ k \in DOMAIN observations
               /\ IsError(observations[k]))
                  => tasks'[i].rargs[1].val = StrV(observations[k])]_vars
    /\ (/\ pc = "wait"
         /\ PlanWellFormed
         /\ Cardinality(Deferred) <= max_workers
         /\ HasFailedDependency) ~> AllRecorded

\* The pass returned three records from the plan of a failing task, a search
\* on its result that was given the error string, and a join.
C22_Witness ==
    /\ AllRecorded
    /\ Len(tool_messages) = 3
    /\ Len(tasks) = 3
    /\ tasks[1].task.tool = "boom"
    /\ tasks[2].task.tool = "search"
    /\ Deps(tasks[2].task) = {1}
    /\ IsError(tasks[2].rargs[1].val.s)
    /\ tasks[3].task.tool = "join"

\* ------------------------------------------ output_parser.py: the stream

\* The lines plans are made of.
PlanLines ==
    {<<"Thought: ", "x">>,
     <<"1", ". ", "search", "(", "query=", "'", "a", "'", ")">>,
     <<"2", ". ", "search", "(", "query=", "'", "$1", "'", ")", "#c">>,
     <<"3", ". ", "join", "(", ")">>,
     <<"1", ". ", "join", "(", ")">>,
     <<"2", ". ", "join", "(", "query=", "'", "$3", "'", ")">>,
     <<"1", ". ", "nope", "(", ")">>,
     <<"x">>}

\* Longest plan text, in lines.
MaxLines == 2

RECURSIVE Join(_, _)
\* sep.join(lines)
Join(lines, sep) ==
    IF lines = <<>> THEN <<>>
    ELSE IF Len(lines) = 1 THEN lines[1]
    ELSE lines[1] \o <<sep>> \o Join(Tail(lines), sep)

\* The plan texts: up to MaxLines lines, with or without a final newline.
PlanTexts ==
    LET bodies == UNION {[1..n -> PlanLines] : n \in 0..MaxLines}
    IN  {Join(b, "\n") : b \in bodies} \cup {Join(b, "\n") \o <<"\n">> : b \in bodies}

\* No pass is running.
SchedulerIdle ==
    /\ messages = <<>>
    /\ observations = <<>>
    /\ originals = {}
    /\ task_names = <<>>
    /\ tasks = <<>>
    /\ pc = "idle"
    /\ max_workers = 1
    /\ tool_messages = <<>>

InitParser ==
    /\ BrokerIdle
    /\ text \in PlanTexts
    /\ fed = 0
    /\ texts = <<>>
    /\ thought = None
    /\ yielded = <<>>
    /\ ppc = "feeding"
    /\ SchedulerIdle

\* _transform's loop body, r being what ingest_token made of the chunk.
Fed(r) ==
    /\ yielded' = yielded \o r.tasks
    /\ texts' = r.buffer
    /\ thought' = r.thought
    /\ ppc' = IF r.raised THEN "raised" ELSE "feeding"

\* _transform takes the next chunk, the next n tokens of the text, and runs
\* ingest_token on it, yielding the tasks of the lines the chunk completes.
Feed(n) ==
    /\ ppc = "feeding"
    /\ Fed(ingest_token(SubSeq(text, fed + 1, fed + n), texts, thought))
    /\ fed' = fed + n
    /\ UNCHANGED <<bvars, text, svars>>

\* The last step of _transform, f being what the buffer was parsed to.
Flushed(f) ==
    /\ yielded' = yielded \o f.tasks
    /\ ppc' = IF f.raised THEN "raised" ELSE "done"

\* The chunks are exhausted: _transform parses what is left in the buffer.
EndOfInput ==
    /\ ppc = "feeding"
    /\ fed = Len(text)
    /\ Flushed(flush(texts, thought))
    /\ UNCHANGED <<bvars, text, fed, texts, thought, svars>>

NextParser ==
    \/ \E n \in 0..(Len(text) - fed) : Feed(n)
    \/ EndOfInput

\* _transform on a plan text delivered in chunks cut anywhere.
SpecParser == InitParser /\ [][NextParser]_vars

\* ------------------------------------------- a tool of two parameters

\* key='lit' for a declared key of lookup and a literal or a placeholder.
KeyArgs ==
    {<<KeyToken(key), "'", lit, "'">> : key \in Range(ToolArgKeys("lookup")),
                                        lit \in {"a", "$1", "$2"}}

\* The argument strings of lookup: one key, or both in either order.
KeyArgTexts ==
    KeyArgs
    \cup {pq[1] \o <<", ">> \o pq[2] :
              pq \in {kk \in KeyArgs \X KeyArgs : kk[1][1] # kk[2][1]}}

\* The plan texts of one action line of lookup.
KeyPlanTexts == {<<"3", ". ", "lookup", "(">> \o a \o <<")", "\n">> : a \in KeyArgTexts}

InitKeys ==
    /\ BrokerIdle
    /\ text \in KeyPlanTexts
    /\ fed = 0
    /\ texts = <<>>
    /\ thought = None
    /\ yielded = <<>>
    /\ ppc = "feeding"
    /\ SchedulerIdle

\* _transform on an action line of a tool of two parameters, delivered in
\* chunks cut anywhere.
SpecKeys == InitKeys /\ [][NextParser]_vars

\* ---------------------------------------------------- the parser's claims

\* C2: however the plan text is cut into fragments, the parser yields the
\* Task records (id, tool, args, dependencies and thought) that it yields
\* for the whole text as a single fragment, and fails when that fails.
C2_FragmentsYieldSameTasks ==
    ppc \in {"done", "raised"} =>
        /\ yielded = parse(text).tasks
        /\ (ppc = "raised") = parse(text).raised

\* The lines of the plan text, the empty piece after a final newline
\* included.
TextLines == Split(text, "\n")

\* C15: a join task with id n depends on exactly 1..n-1, whatever its
\* argument string holds, and a line that names join is never what makes the
\* parser raise: when it raises, some line of the text names a tool that is
\* neither join nor registered.
C15_JoinDependsOnAllEarlier ==
    /\ \A n \in DOMAIN yielded :
          yielded[n].tool = "join" =>
              /\ Range(yielded[n].dependencies) = 1..(yielded[n].idx - 1)
              /\ Len(yielded[n].dependencies) = yielded[n].idx - 1
    /\ ppc = "raised" =>
          \E l \in DOMAIN TextLines :
              /\ Len(TextLines[l]) >= 3
              /\ TextLines[l][3] \in Words \ ({"join"} \cup Range(ToolNames))

\* The parse is over and yielded a join with id 2 whose argument string
\* names task 3, and a join with id 1.
C15_Witness ==
    /\ ppc = "done"
    /\ \E m, n \in DOMAIN yielded :
          /\ yielded[m].tool = "join" /\ yielded[m].idx = 1
          /\ yielded[n].tool = "join" /\ yielded[n].idx = 2

\* Whether a line of the text is an action line whose tool is neither
\* registered nor join.
Offending(line) == action_match(line) /\ line[3] \notin ({"join"} \cup Range(ToolNames))

\* The first offending line of the text, 0 when there is none.
FirstOffending ==
    IF \E l \in DOMAIN TextLines : Offending(TextLines[l])
    THEN CHOOSE l \in DOMAIN TextLines :
             /\ Offending(TextLines[l])
             /\ \A k \in 1..(l - 1) : ~Offending(TextLines[k])
    ELSE 0

\* The action lines above the first offending line, in order.
EarlierActions ==
    SelectSeq(SubSeq(TextLines, 1, FirstOffending - 1), action_match)

\* Whether the tasks yielded so far are, in order, the tasks of the first n
\* action lines above the first offending line.
YieldedAreEarlier(n) ==
    /\ Len(yielded) = n
    /\ \A m \in 1..n :
          /\ yielded[m].idx = Digit(EarlierActions[m][1])
          /\ yielded[m].tool = EarlierActions[m][3]

\* C17: on a text with an action line that names a tool neither registered
\* nor join, the parse never ends normally; at every moment the tasks yielded
\* are tasks of action lines above the first such line, in order, and when
\* the parser has raised they are all of them: nothing from the offending
\* line or a later one is ever yielded.
C17_UnknownToolRaisesAtItsLine ==
    FirstOffending # 0 =>
        /\ ppc # "done"
        /\ \E n \in 0..Len(EarlierActions) : YieldedAreEarlier(n)
        /\ ppc = "raised" => YieldedAreEarlier(Len(EarlierActions))

\* The parser raised on the second line, an unknown tool, after it yielded
\* the task of the first.
C17_Witness ==
    /\ FirstOffending = 2
    /\ ppc = "raised"
    /\ Len(yielded) = 1

\* The positions in the text of its action lines, in order.
ActionPositions ==
    SelectSeq([l \in DOMAIN TextLines |-> l], LAMBDA l : action_match(TextLines[l]))

\* The positions of the Thought lines between the action line before the
\* n-th one (or the start of the plan) and the n-th action line.
ThoughtsBefore(n) ==
    {l \in ((IF n = 1 THEN 0 ELSE ActionPositions[n - 1]) + 1)..(ActionPositions[n] - 1) :
        thought_match(TextLines[l])}

\* The thought the n-th action line is to carry: the text of the last of
\* those Thought lines, None when there is none.
ExpectedThought(n) ==
    IF ThoughtsBefore(n) = {} THEN None
    ELSE Tail(TextLines[CHOOSE l \in ThoughtsBefore(n) :
                            \A k \in ThoughtsBefore(n) : k <= l])

\* C21: however the text is cut into fragments, the tasks yielded are tasks
\* of action lines only, and the n-th of them carries the text of the last
\* Thought line between the action line before it and its own line, or no
\* thought when there is no such line.
C21_ThoughtOfPrecedingLine ==
    /\ Len(yielded) <= Len(ActionPositions)
    /\ \A n \in DOMAIN yielded : yielded[n].thought = ExpectedThought(n)

\* What follows the last newline of the text: empty when the text ends with
\* a newline.
LastLine == TextLines[Len(TextLines)]

\* The action lines of the text that a newline completes.
CompletedActions ==
    SelectSeq(SubSeq(TextLines, 1, Len(TextLines) - 1), action_match)

\* C24: while fragments arrive the parser yields tasks of lines completed by
\* a newline only; when the fragments end without an error, a last line that
\* is an action line with no newline after it is yielded then, once, as the
\* last task, and on a text that ends with a newline (or with anything that
\* is not an action line) the end yields nothing.
C24_FlushYieldsLastLine ==
    /\ [](ppc = "feeding" => Len(yielded) <= Len(CompletedActions))
    /\ [][ppc = "feeding" /\ ppc' = "done" =>
              IF action_match(LastLine)
              THEN /\ yielded = SubSeq(yielded', 1, Len(yielded))
                   /\ Len(yielded') = Len(yielded) + 1
                   /\ yielded'[Len(yielded')].idx = Digit(LastLine[1])
                   /\ yielded'[Len(yielded')].tool = LastLine[3]
                   /\ Len(yielded') = Len(CompletedActions) + 1
              ELSE yielded' = yielded]_vars

\* The parse of a text of two action lines, the second with no newline after
\* it, is over: the second task came out at the end.
C24_Witness ==
    /\ ppc = "done"
    /\ action_match(LastLine)
    /\ Len(yielded) = 2
    /\ yielded[2].idx = Digit(LastLine[1])

\* A task without its thought.
Thoughtless(task) ==
    [idx |-> task.idx, tool |-> task.tool, args |-> task.args,
     dependencies |-> task.dependencies]

\* The tasks of a stream, each without its thought.
ThoughtlessAll(stream) == [n \in DOMAIN stream |-> Thoughtless(stream[n])]

\* C26: however the text is cut into fragments, empty ones included, the
\* tasks yielded so far are, but for their thoughts, the first tasks the
\* parser yields for the whole text as one fragment; at the end they are all
\* of them, the parse fails exactly when that one fails, and a parse that
\* ends normally has yielded one task for each action line, in order.
C26_TasksDependOnConcatenation ==
    /\ Len(yielded) <= Len(parse(text).tasks)
    /\ ThoughtlessAll(yielded)
          = SubSeq(ThoughtlessAll(parse(text).tasks), 1, Len(yielded))
    /\ ppc \in {"done", "raised"} =>
          /\ Len(yielded) = Len(parse(text).tasks)
          /\ (ppc = "raised") = parse(text).raised
    /\ ppc = "done" =>
          /\ Len(yielded) = Len(ActionPositions)
          /\ \A n \in DOMAIN yielded :
                yielded[n].idx = Digit(TextLines[ActionPositions[n]][1])

\* The parser has yielded the task of the first line and holds the beginning
\* of the second line, which the next fragment continues.
C26_Witness ==
    /\ ppc = "feeding"
    /\ Len(yielded) = 1
    /\ Len(ActionPositions) = 2
    /\ texts # <<>>
    /\ fed < Len(text)
    /\ text[fed + 1] # "\n"

\* The ids of the placeholders written in the plan text.
TextPlaceholderIds == {ID_PATTERN(text[i]) : i \in DOMAIN text} \ {0}

\* C27: every declared parameter name of the tool that is written as key= in
\* the argument string of an action line is a key of the parsed args of the
\* task of that line, in whatever order the keys are written, and every
\* placeholder written in the line is among the task's dependencies.
C27_EveryWrittenKeyIsParsed ==
    \A n \in DOMAIN yielded :
        /\ \A k \in Range(ToolArgKeys(yielded[n].tool)) :
              KeyToken(k) \in Range(text) =>
                  \E a \in DOMAIN yielded[n].args : yielded[n].args[a].key = k
        /\ TextPlaceholderIds \subseteq Range(yielded[n].dependencies)

\* ----------------------------- plan_and_schedule: the parser and the pass

\* The lines of the plan of three tasks that fan in to a join.
ExampleLines ==
    <<<<"Thought: ", "x">>,
      <<"1", ". ", "search", "(", "query=", "'", "a", "'", ")">>,
      <<"2", ". ", "search", "(", "query=", "'", "b", "'", ")">>,
      <<"3", ". ", "join", "(", ")">>>>

ExamplePlan == Join(ExampleLines, "\n") \o <<"\n">>

\* The plan texts a pass is run on.
PassTexts == PlanTexts \cup {ExamplePlan}

\* self.parser.stream(messages) on each plan text, read as one chunk.
Streams == [txt \in PassTexts |-> parse(txt)]

\* tasks_iter of the running pass: the stream of its plan text.
tasks_iter == Streams[text]

\* The pass starts on a plan text the parser has not begun to read.
InitPass ==
    /\ BrokerIdle
    /\ text \in PassTexts
    /\ fed = 0
    /\ texts = <<>>
    /\ thought = None
    /\ yielded = <<>>
    /\ ppc = "feeding"
    /\ messages \in HistorySet
    /\ observations = get_observations(messages)
    /\ originals = DOMAIN observations
    /\ task_names = <<>>
    /\ tasks = <<>>
    /\ pc = "pull"
    /\ max_workers \in 1..MaxWorkers
    /\ tool_messages = <<>>

\* `for task in tasks_iter` gets the next task: the parser, run on the text
\* as one chunk, hands over the next task of its stream and the pass
\* dispatches it.
PullParsed ==
    /\ ppc = "feeding"
    /\ Len(yielded) < Len(tasks_iter.tasks)
    /\ LET task == tasks_iter.tasks[Len(yielded) + 1]
       IN  /\ Dispatch(task)
           /\ yielded' = Append(yielded, task)
    /\ fed' = Len(text)
    /\ UNCHANGED <<bvars, text, texts, thought, ppc>>

\* The parser's stream ends: the calling thread goes on to wait(futures).
StreamEnds ==
    /\ pc = "pull"
    /\ ppc = "feeding"
    /\ Len(yielded) = Len(tasks_iter.tasks)
    /\ ~tasks_iter.raised
    /\ ppc' = "done"
    /\ pc' = "wait"
    /\ fed' = Len(text)
    /\ UNCHANGED <<bvars, text, texts, thought, yielded, messages, observations, originals,
                   task_names, tasks, max_workers, tool_messages>>

\* The parser raises OutputParserException.  Inside the loop of
\* schedule_tasks the exception leaves the `with` block, whose exit shuts the
\* executor down; at the first next(tasks_iter) of plan_and_schedule it
\* reaches the caller before schedule_tasks is called.
StreamRaises ==
    /\ pc = "pull"
    /\ ppc = "feeding"
    /\ Len(yielded) = Len(tasks_iter.tasks)
    /\ tasks_iter.raised
    /\ ppc' = "raised"
    /\ pc' = IF yielded = <<>> THEN "raised" ELSE "shutdown"
    /\ fed' = Len(text)
    /\ UNCHANGED <<bvars, text, texts, thought, yielded, messages, observations, originals,
                   task_names, tasks, max_workers, tool_messages>>

\* executor.shutdown(wait=True) has joined the workers, which run every
\* future that was submitted: the exception reaches the caller.
Raise ==
    /\ pc = "shutdown"
    /\ futures_done
    /\ pc' = "raised"
    /\ UNCHANGED <<bvars, pvars, messages, observations, originals, task_names, tasks,
                   max_workers, tool_messages>>

NextPass == PullParsed \/ StreamEnds \/ StreamRaises \/ Raise \/ Work

\* plan_and_schedule: schedule_tasks fed by the parser.
SpecPass == InitPass /\ [][NextPass]_vars

\* What the calling thread can do in a pass fed by the parser.
MainPass ==
    \/ PullParsed
    \/ StreamEnds
    \/ StreamRaises
    \/ Raise
    \/ \E i \in DOMAIN tasks : tasks[i].mode = "inline" /\ (StartExec(i) \/ FinishExec(i))
    \/ Return

\* The pass fed by the parser, every thread scheduled fairly.
SpecPassFair ==
    /\ InitPass
    /\ [][NextPass]_vars
    /\ WF_vars(MainPass)
    /\ \A i \in 1..(MaxLines + Len(ExampleLines)) : WF_vars(Worker(i))

\* ------------------------------------------------- the claims on a pass

\* The pass runs the plan of three tasks on a history with no result in it.
IsExample == text = ExamplePlan /\ originals = {}

\* The records of search on 'a', search on 'b' and the join.
ExampleRecords ==
    <<[idx |-> 1, name |-> "search", content |-> <<"result:", "a">>],
      [idx |-> 2, name |-> "search", content |-> <<"result:", "b">>],
      [idx |-> 3, name |-> "join", content |-> <<"join">>]>>

\* C16: on the plan Thought, 1. search(query='a'), 2. search(query='b'),
\* 3. join() and an empty seed, schedule_tasks returns, and what it returns
\* is exactly the records (1, search, result:a), (2, search, result:b),
\* (3, join, join) in that order; task 3 is never started before tasks 1 and
\* 2 have both written their observations.
C16_ExamplePlanRecords ==
    /\ IsExample ~> (pc = "returned")
    /\ [](IsExample /\ pc = "returned" => tool_messages = ExampleRecords)
    /\ [](IsExample =>
            \A i \in DOMAIN tasks :
                tasks[i].task.idx = 3 /\ tasks[i].st \in {"ready", "executing", "completed"}
                    => /\ {1, 2} \subseteq DOMAIN observations
                       /\ \A j \in DOMAIN tasks : j < i => Completed(j))

\* The pass on the example plan has returned its three records.
C16_Witness == IsExample /\ pc = "returned" /\ Len(tool_messages) = Len(ExampleRecords)

\* C18: when the parser raises while schedule_tasks is pulling tasks, that is
\* after it handed over at least one task, schedule_tasks eventually
\* terminates by raising the error, whatever the deferred workers are doing.
C18_ParseErrorReachesCaller ==
    (ppc = "raised" /\ yielded # <<>>) ~> (pc = "raised")

\* The ids of the action lines of the text, in order.
ActionIds ==
    LET actions == SelectSeq(TextLines, action_match)
    IN  [n \in DOMAIN actions |-> Digit(actions[n][1])]

\* Whether the ids of the action lines repeat or go down somewhere.
IdsOutOfOrder ==
    \E m, n \in DOMAIN ActionIds : m < n /\ ActionIds[m] >= ActionIds[n]

\* C19: a plan whose action lines carry duplicate ids or ids that go down is
\* never parsed to its end without a parse error, and no task is executed
\* under an id that an earlier task of the same plan already used.
C19_DuplicateIdsRejected ==
    /\ IdsOutOfOrder => ppc # "done"
    /\ \A i, j \in DOMAIN tasks :
          i < j /\ tasks[i].task.idx = tasks[j].task.idx
              => tasks[j].st \notin {"executing", "completed"}

\* How far a task has come: waiting on its dependencies (in the executor's
\* queue or in the loop of schedule_pending_task), ready for execution,
\* executing, completed.
Stage(st) ==
    CASE st \in {"queued", "check", "sleep"} -> 1
      [] st = "ready" -> 2
      [] st = "executing" -> 3
      [] OTHER -> 4

\* C23: the tasks the scheduler has dispatched are, one for one and in order,
\* the tasks the parser has yielded; a dispatched task keeps its mode (inline
\* or deferred), never goes back to an earlier stage, enters its tool only
\* from the stage before, writes at most once, and once completed does not
\* change any more.
C23_TasksOnlyMoveForward ==
    /\ [](/\ Len(tasks) = Len(yielded)
           /\ \A i \in DOMAIN tasks :
                 /\ tasks[i].task = yielded[i]
                 /\ Len(tasks[i].wrote) <= 1)
    /\ [][\A i \in DOMAIN tasks :
              /\ i \in DOMAIN tasks'
              /\ tasks'[i].task = tasks[i].task
              /\ tasks'[i].mode = tasks[i].mode
              /\ Stage(tasks'[i].st) >= Stage(tasks[i].st)
              /\ Stage(tasks'[i].st) <= Stage(tasks[i].st) + 1
              /\ Completed(i) => tasks'[i] = tasks[i]]_vars

\* The pass returned from a plan with a task that ran inline and a task that
\* waited in a worker, both completed.
C23_Witness ==
    /\ pc = "returned"
    /\ \E i, j \in DOMAIN tasks :
          /\ tasks[i].mode = "inline" /\ Completed(i)
          /\ tasks[j].mode = "deferred" /\ Completed(j)

\* ------------------------------------------ message_broker.py: the broker

\* The callbacks that can subscribe, named by their place in the iteration
\* order of a set that holds them.
MaxCallbacks == 2
Callbacks == 1..MaxCallbacks

\* max_rate of the broker.
MaxRate == 1

\* Most calls of publish in a run.
MaxPublish == 2

\* The SecureMessages: valid says that security.verify_signature accepts the
\* signature, expired that the message is older than its ttl when it is
\* taken from the queue.
SecureMessages ==
    [sender_id : Senders, message_type : Topics, valid : BOOLEAN, expired : BOOLEAN]

\* subscribe(topic, callback): the callback joins the topic's set and the
\* caller gets the closure that takes it out again.
subscribe(t, cb) ==
    /\ subscribers' = [subscribers EXCEPT ![t] = @ \cup {cb}]
    /\ UNCHANGED <<pvars, svars, rate_limits, message_history, calls, delivered>>

\* The closure returned by subscribe(t, cb) is called while the callback is
\* in the set; on a callback that is not, discard changes nothing.
unsubscribe(t, cb) ==
    /\ cb \in subscribers[t]
    /\ subscribers' = [subscribers EXCEPT ![t] = @ \ {cb}]
    /\ UNCHANGED <<pvars, svars, rate_limits, message_history, calls, delivered>>

\* _notify_subscribers takes the next subscriber from the iterator over
\* subscribers[message.message_type.value] and awaits a task that calls it;
\* when the iterator is exhausted the queue is empty and publish returns.
notify_next(c) ==
    LET rest == {cb \in subscribers[c.message.message_type] : cb > c.pos}
    IN  IF rest = {} THEN [c EXCEPT !.st = "done"]
        ELSE [c EXCEPT !.st = "scheduled",
                       !.pos = CHOOSE cb \in rest : \A other \in rest : cb <= other]

\* publish(topic, message) up to its first suspension: the rate limit and the
\* signature are checked (ValueError), the message is put on the queue and
\* _process_message_queue takes it off again, drops it when it has expired,
\* otherwise keeps it in message_history and starts to notify.  No
\* coroutine is suspended while the queue holds a message, so the queue is
\* empty between steps and is not kept as state.  listeners are the
\* callbacks subscribed to the topic of the call when it is made.
publish(t, m) ==
    /\ Len(calls) < MaxPublish
    /\ LET limited == rate_limits[m.sender_id] >= MaxRate
           kept == ~limited /\ m.valid /\ ~m.expired
           c == [topic |-> t, message |-> m, accepted |-> kept,
                 listeners |-> subscribers[t],
                 size |-> Cardinality(subscribers[m.message_type]),
                 pos |-> 0, st |-> "rejected"]
       IN  /\ rate_limits' = IF limited THEN rate_limits
                             ELSE [rate_limits EXCEPT ![m.sender_id] = @ + 1]
           /\ message_history' =
                 IF kept
                 THEN [message_history EXCEPT ![m.message_type] = Append(@, Len(calls) + 1)]
                 ELSE message_history
           /\ calls' = Append(calls,
                           IF limited \/ ~m.valid THEN c
                           ELSE IF m.expired THEN [c EXCEPT !.st = "done"]
                           ELSE notify_next(c))
    /\ UNCHANGED <<pvars, svars, subscribers, delivered>>

\* The task made by asyncio.create_task(subscriber(message)) runs: the
\* callback is called with the message.  live says whether the callback is
\* subscribed to the message's topic at that moment.
subscriber(c) ==
    /\ c \in DOMAIN calls
    /\ calls[c].st = "scheduled"
    /\ delivered' = Append(delivered,
                           [call |-> c, cb |-> calls[c].pos,
                            live |-> calls[c].pos \in subscribers[calls[c].message.message_type]])
    /\ calls' = [calls EXCEPT ![c].st = "awaiting"]
    /\ UNCHANGED <<pvars, svars, subscribers, rate_limits, message_history>>

\* _notify_subscribers resumes after the callback's task: the for loop asks
\* the set iterator for the next subscriber, which raises RuntimeError when
\* the set has changed size since the loop began.
notify_subscribers(c) ==
    /\ c \in DOMAIN calls
    /\ calls[c].st = "awaiting"
    /\ calls' = [calls EXCEPT ![c] =
                    IF Cardinality(subscribers[calls[c].message.message_type]) # calls[c].size
                    THEN [@ EXCEPT !.st = "raised"]
                    ELSE notify_next(@)]
    /\ UNCHANGED <<pvars, svars, subscribers, rate_limits, message_history, delivered>>

InitBroker == ParserIdle /\ SchedulerIdle /\ BrokerIdle

NextBroker ==
    \/ \E t \in Topics, cb \in Callbacks : subscribe(t, cb)
    \/ \E t \in Topics, cb \in Callbacks : unsubscribe(t, cb)
    \/ \E t \in Topics, m \in SecureMessages : publish(t, m)
    \/ \E c \in 1..MaxPublish : subscriber(c)
    \/ \E c \in 1..MaxPublish : notify_subscribers(c)

\* A MessageBroker whose methods are called by the coroutines of one event
\* loop.
SpecBroker == InitBroker /\ [][NextBroker]_vars

\* How often callback cb was called with the message of call c.
Deliveries(c, cb) ==
    Cardinality({n \in DOMAIN delivered : delivered[n].call = c /\ delivered[n].cb = cb})

\* C30: when publish(topic, message) has ended for a message it accepted,
\* every callback that was subscribed to that topic when publish was called
\* and still is has been called with the message exactly once; no callback
\* is called twice with a message, and none is called when it is no longer
\* subscribed.
C30_DeliveredOnceToSubscribers ==
    /\ \A c \in DOMAIN calls :
          calls[c].accepted /\ calls[c].st \in {"done", "raised"} =>
              \A cb \in calls[c].listeners \cap subscribers[calls[c].topic] :
                  Deliveries(c, cb) = 1
    /\ \A c \in DOMAIN calls : \A cb \in Callbacks : Deliveries(c, cb) <= 1
    /\ \A n \in DOMAIN delivered : delivered[n].live

====
